---------------------------- MODULE Spec2Model ----------------------------
(***************************************************************************)
(* Bandit selectors of RL_An_Introduction_2018: ucb_bandit, simple_bandit  *)
(* (0207_UCB_Bandit.ipynb) and gradient_bandit (0208_Gradient_Bandit.ipynb)*)
(* with their helpers argmax_rand and softmax.                             *)
(*                                                                         *)
(* Numbers.  numpy float64 values are modelled as exact rationals <<n, d>> *)
(* (d > 0, lowest terms), so +, -, * and / are the real operations and     *)
(* float rounding is not modelled.  The transcendental library functions   *)
(* np.log, np.sqrt and np.exp are modelled by computable approximations    *)
(* (log, sqrt, exp below); np.exp keeps the float64 overflow and underflow *)
(* thresholds, and the two non-finite results are the values Inf and NaN.  *)
(*                                                                         *)
(* Randomness.  Every draw of np.random (rand, randint, choice, and the    *)
(* reward returned by env.step) is a nondeterministic choice over the      *)
(* outcomes the draw can produce.                                          *)
(***************************************************************************)
EXTENDS Integers, Sequences, FiniteSets

(***************************************************************************)
(* Bounds of the model.                                                    *)
(***************************************************************************)
\* largest env.size of a run
MaxK == 2
\* largest step budget nb of a ucb_bandit run
MaxNb == 5
\* largest step budget nb of a simple_bandit run
MaxNbSimple == 3
\* largest step budget nb of a gradient_bandit run
MaxNbGrad == 2
\* rewards returned by env.step are the integers -1 .. MaxReward
MaxReward == 1
\* longest array handed to argmax_rand and softmax when called on their own
MaxLen == 4
\* largest step budget nb of a ucb_bandit run on the deterministic environment
MaxNbStub == 12

(***************************************************************************)
(* Rational arithmetic.                                                    *)
(***************************************************************************)
Abs(x) == IF x < 0 THEN -x ELSE x

RECURSIVE Gcd(_, _)
Gcd(a, b) == IF b = 0 THEN a ELSE Gcd(b, a % b)

\* the rational n/d (d # 0) in lowest terms with a positive denominator
Rat(n, d) ==
    LET g == Gcd(Abs(n), Abs(d))
        s == IF d < 0 THEN -1 ELSE 1
    IN  <<s * (n \div g), s * (d \div g)>>

FromInt(n) == <<n, 1>>
Zero == FromInt(0)
One == FromInt(1)

\* x + y over the least common denominator
RAdd(x, y) ==
    LET g == Gcd(x[2], y[2])
    IN  Rat(x[1] * (y[2] \div g) + y[1] * (x[2] \div g), (x[2] \div g) * y[2])
RNeg(x) == <<-x[1], x[2]>>
RSub(x, y) == RAdd(x, RNeg(y))
\* x * y, cancelling across before multiplying
RMul(x, y) ==
    LET g1 == Gcd(Abs(x[1]), y[2])
        g2 == Gcd(Abs(y[1]), x[2])
    IN  Rat((x[1] \div g1) * (y[1] \div g2), (x[2] \div g2) * (y[2] \div g1))
RInv(x) == Rat(x[2], x[1])
RDiv(x, y) == RMul(x, RInv(y))
RLe(x, y) ==
    LET g == Gcd(x[2], y[2])
    IN  x[1] * (y[2] \div g) <= y[1] * (x[2] \div g)
RLt(x, y) ==
    LET g == Gcd(x[2], y[2])
    IN  x[1] * (y[2] \div g) < y[1] * (x[2] \div g)

\* the sum of f[i] over the finite set S of arguments
RECURSIVE RSum(_, _)
RSum(f, S) ==
    IF S = {} THEN Zero
    ELSE LET i == CHOOSE j \in S : TRUE
         IN  RAdd(f[i], RSum(f, S \ {i}))

\* the largest element of a non-empty finite set of rationals
RMax(S) == CHOOSE x \in S : \A y \in S : RLe(y, x)

(***************************************************************************)
(* float64 values that are not finite: x/0 and the overflow of np.exp give *)
(* Inf, Inf/Inf and 0/0 give NaN.  They are written as "rationals" with a  *)
(* zero denominator; every other value is finite.                          *)
(***************************************************************************)
Inf == <<1, 0>>
NaN == <<0, 0>>
IsFinite(x) == x[2] # 0

\* float division x / y
FDiv(x, y) ==
    IF x = NaN \/ y = NaN THEN NaN
    ELSE IF x = Inf THEN (IF y = Inf THEN NaN ELSE Inf)
    ELSE IF y = Inf THEN Zero
    ELSE IF y = Zero THEN (IF x = Zero THEN NaN ELSE Inf)
    ELSE RDiv(x, y)

\* np.sum of the float array f
FSum(f) ==
    IF \E i \in DOMAIN f : f[i] = NaN THEN NaN
    ELSE IF \E i \in DOMAIN f : f[i] = Inf THEN Inf
    ELSE RSum(f, DOMAIN f)

(***************************************************************************)
(* Library functions.                                                      *)
(***************************************************************************)
\* np.log(t) of a step index t >= 1, to three decimals
log(t) ==
    CASE t = 1 -> Rat(0, 1000)
      [] t = 2 -> Rat(693, 1000)
      [] t = 3 -> Rat(1099, 1000)
      [] t = 4 -> Rat(1386, 1000)
      [] t = 5 -> Rat(1609, 1000)
      [] t = 6 -> Rat(1792, 1000)
      [] t = 7 -> Rat(1946, 1000)
      [] t = 8 -> Rat(2079, 1000)
      [] t = 9 -> Rat(2197, 1000)
      [] t = 10 -> Rat(2303, 1000)
      [] t = 11 -> Rat(2398, 1000)
      [] t = 12 -> Rat(2485, 1000)

\* the largest r in lo .. hi with r * r <= n
RECURSIVE ISqrtIn(_, _, _)
ISqrtIn(n, lo, hi) ==
    IF lo >= hi THEN lo
    ELSE LET mid == (lo + hi + 1) \div 2
         IN  IF mid * mid <= n THEN ISqrtIn(n, mid, hi)
             ELSE ISqrtIn(n, lo, mid - 1)

\* np.sqrt(x) of a rational x >= 0, rounded down to a multiple of 1/900 (the
\* finest grid on which x[1] * 900 * 900 fits an integer for x = log(t) / n)
sqrt(x) == Rat(ISqrtIn((x[1] * 810000) \div x[2], 0, 40000), 900)

\* float64: np.exp(x) is inf above ExpOverflow (about 709.78) and 0.0 below
\* ExpUnderflow (about -745.13); both to one decimal
ExpOverflow == Rat(7098, 10)
ExpUnderflow == Rat(-7452, 10)

\* np.exp(x): 1/(1 - x) for x <= 0 and 1 + x for x > 0 (the [0/1] Pade
\* approximant of e^x and its reciprocal: positive, increasing, exp(0) = 1)
exp(x) ==
    IF RLt(ExpOverflow, x) THEN Inf
    ELSE IF RLt(x, ExpUnderflow) THEN Zero
    ELSE IF RLe(x, Zero) THEN RInv(RSub(One, x))
    ELSE RAdd(One, x)

(***************************************************************************)
(* Helper functions of the notebooks.  Arrays are functions on 0 .. n-1.   *)
(***************************************************************************)
zeros(n) == [a \in 0 .. n - 1 |-> Zero]

\* arr.max()
max(arr) == RMax({arr[i] : i \in DOMAIN arr})

\* mutant of argmax_rand: ties broken among the smallest values (arr.min())
argmin_rand(arr) == {i \in DOMAIN arr : \A j \in DOMAIN arr : RLe(arr[i], arr[j])}

\* mutant of argmax_rand: np.argmax, which always picks the first maximum
argmax_first(arr) ==
    {i \in DOMAIN arr : arr[i] = max(arr) /\ \A j \in DOMAIN arr : arr[j] = max(arr) => i <= j}

\* argmax_rand(arr): the indices np.random.choice can return
argmax_rand(arr) == {i \in DOMAIN arr : arr[i] = max(arr)}

\* mutant of softmax: the maximum is not subtracted before exponentiating
softmax_naive(x) ==
    LET ex == [i \in DOMAIN x |-> exp(x[i])]
    IN  [i \in DOMAIN x |-> FDiv(ex[i], FSum(ex))]

\* softmax(x)
softmax(x) ==
    LET ex == [i \in DOMAIN x |-> exp(RSub(x[i], max(x)))]
    IN  [i \in DOMAIN x |-> FDiv(ex[i], FSum(ex))]

\* mutant of choice: no sampling, the indices of the largest probability
choice_argmax(n, pi) == argmax_rand(pi)

\* np.random.choice(range(n), p=pi): the indices it can return
choice(n, pi) == {a \in 0 .. n - 1 : RLt(Zero, pi[a])}

(***************************************************************************)
(* Inputs.                                                                 *)
(***************************************************************************)
\* rewards env.step can return (np.random.normal: any real; here a few)
Rewards == {FromInt(r) : r \in -1 .. MaxReward}
\* env.means of an environment of n actions (np.random.normal: any reals;
\* here two vectors)
MeansValues(n) ==
    {[a \in 0 .. n - 1 |-> Zero], [a \in 0 .. n - 1 |-> FromInt(1 - a)]}
\* exploration coefficients c (the experiment runs c = 2.0; 0 is greedy)
CValues == {FromInt(0), FromInt(2)}
\* eps of simple_bandit (the experiment runs eps = 0.1; 1 never exploits)
EpsValues == {Rat(1, 10), FromInt(1)}
\* values np.random.rand() can return, in [0, 1)
RandValues == {Zero, Rat(1, 2)}
\* step sizes alpha (the experiment runs 0.1 and 0.4)
AlphaValues == {Rat(1, 10), Rat(4, 10)}
\* entries of the arrays handed to argmax_rand on its own
ArgValues == {FromInt(1), FromInt(2), FromInt(5)}
\* entries of the preference vectors handed to softmax on its own
PrefValues == {FromInt(-1000), FromInt(-1), Zero, One, FromInt(1000)}

(***************************************************************************)
(* State.                                                                  *)
(***************************************************************************)
VARIABLES
    sel,        \* the function running: "ucb_bandit", "simple_bandit",
                \* "gradient_bandit", or a helper called on its own:
                \* "argmax_rand", "softmax"
    pc,         \* where it is: "warmup", "bound", "loop", "call", "done"
    env,        \* the environment: "BanditEnv" (random rewards) or "stub"
                \* (step(0) returns 1.0 and step(1) returns 0.0, always)
    k,          \* env.size
    means,      \* env.means, the mean reward of each action
    nb, c, eps, alpha, baseline,    \* the arguments
    Q, N,       \* ucb_bandit, simple_bandit: estimates and counts
    H, R_, N_,  \* gradient_bandit: preferences, baseline and its count
    hist_A, hist_R,                 \* the histories
    t,          \* number of loop iterations completed (the bound loop's t)
    calls,      \* the environment's view: <<action, reward>> of each env.step
                \* of the run
    arr, ret    \* a helper called on its own: its argument, <<its result>>

vars == <<sel, pc, env, k, means, nb, c, eps, alpha, baseline, Q, N, H, R_, N_,
          hist_A, hist_R, t, calls, arr, ret>>

Actions == 0 .. k - 1

\* the reward the deterministic environment returns for action A
StubReward(A) == IF A = 0 THEN One ELSE Zero
\* env.step(A): the rewards it can return
env_step(A) == IF env = "stub" THEN {StubReward(A)} ELSE Rewards

\* mutant of ucb_pc: the warm-up one iteration short, range(env.size - 1)
ucb_pc_short(i) ==
    IF i < k - 1 THEN "warmup" ELSE IF i < nb THEN "bound" ELSE "done"

\* mutant of ucb_pc: the second loop one iteration longer, range(env.size, nb + 1)
ucb_pc_inclusive(i) ==
    IF i < k THEN "warmup" ELSE IF i <= nb THEN "bound" ELSE "done"

\* the loops of ucb_bandit: for A in range(env.size), for t in range(env.size, nb)
ucb_pc(i) == IF i < k THEN "warmup" ELSE IF i < nb THEN "bound" ELSE "done"
\* mutant of loop_pc: one iteration too many, range(nb + 1)
loop_pc_extra(i) == IF i <= nb THEN "loop" ELSE "done"

\* for _ in range(nb)
loop_pc(i) == IF i < nb THEN "loop" ELSE "done"

NoParams ==
    /\ c = Zero /\ eps = Zero /\ alpha = Zero /\ baseline = FALSE
NoBandit ==
    /\ Q = <<>> /\ N = <<>>
NoGradient ==
    /\ H = <<>> /\ R_ = Zero /\ N_ = 0
NoHelper ==
    /\ arr = <<>> /\ ret = <<>>
NoRun ==
    /\ hist_A = <<>> /\ hist_R = <<>> /\ t = 0 /\ calls = <<>>

\* ucb_bandit(env, nb, c) up to its first loop
InitUcb ==
    /\ sel = "ucb_bandit" /\ env = "BanditEnv"
    /\ k \in 1 .. MaxK /\ means = zeros(k)
    /\ nb \in 0 .. MaxNb
    /\ c \in CValues /\ eps = Zero /\ alpha = Zero /\ baseline = FALSE
    /\ Q = zeros(k) /\ N = [a \in Actions |-> 0]
    /\ NoGradient /\ NoHelper /\ NoRun
    /\ pc = ucb_pc(0)

\* ucb_bandit(env, nb, c) up to its first loop, env the deterministic
\* environment with two actions
InitUcbStub ==
    /\ sel = "ucb_bandit" /\ env = "stub"
    /\ k = 2 /\ means = [a \in 0 .. 1 |-> StubReward(a)]
    /\ nb \in 0 .. MaxNbStub
    /\ c \in CValues /\ eps = Zero /\ alpha = Zero /\ baseline = FALSE
    /\ Q = zeros(k) /\ N = [a \in Actions |-> 0]
    /\ NoGradient /\ NoHelper /\ NoRun
    /\ pc = ucb_pc(0)

\* simple_bandit(env, nb, eps) up to its loop
InitSimple ==
    /\ sel = "simple_bandit" /\ env = "BanditEnv"
    /\ k \in 1 .. MaxK /\ means \in MeansValues(k)
    /\ nb \in 0 .. MaxNbSimple
    /\ eps \in EpsValues /\ c = Zero /\ alpha = Zero /\ baseline = FALSE
    /\ Q = zeros(k) /\ N = [a \in Actions |-> 0]
    /\ NoGradient /\ NoHelper /\ NoRun
    /\ pc = loop_pc(0)

\* gradient_bandit(env, nb, alpha, baseline) up to its loop
InitGradient ==
    /\ sel = "gradient_bandit" /\ env = "BanditEnv"
    /\ k \in 1 .. MaxK /\ means = zeros(k)
    /\ nb \in 0 .. MaxNbGrad
    /\ alpha \in AlphaValues /\ baseline \in BOOLEAN /\ c = Zero /\ eps = Zero
    /\ H = zeros(k) /\ R_ = Zero /\ N_ = 0
    /\ NoBandit /\ NoHelper /\ NoRun
    /\ pc = loop_pc(0)

\* argmax_rand(arr) about to be called on a non-empty array
InitArgmax ==
    /\ sel = "argmax_rand" /\ env = "BanditEnv" /\ means = <<>>
    /\ k \in 1 .. MaxLen
    /\ arr \in [Actions -> ArgValues]
    /\ ret = <<>>
    /\ nb = 0 /\ NoParams /\ NoBandit /\ NoGradient /\ NoRun
    /\ pc = "call"

\* softmax(x) about to be called on a non-empty finite vector
InitSoftmax ==
    /\ sel = "softmax" /\ env = "BanditEnv" /\ means = <<>>
    /\ k \in 1 .. MaxLen
    /\ arr \in [Actions -> PrefValues]
    /\ ret = <<>>
    /\ nb = 0 /\ NoParams /\ NoBandit /\ NoGradient /\ NoRun
    /\ pc = "call"

Init == InitUcb \/ InitUcbStub \/ InitSimple \/ InitGradient \/ InitArgmax \/ InitSoftmax

(***************************************************************************)
(* The steps.                                                              *)
(***************************************************************************)
\* mutant of count: N += 1, which counts the step for every action
count_all(n, A) == [a \in DOMAIN n |-> n[a] + 1]

\* N[A] += 1
count(n, A) == [n EXCEPT ![A] = @ + 1]

\* mutant of estimate: Q[A] += (1/N[A]) * R, the old estimate not subtracted
estimate_no_error(q, n, A, R) ==
    [q EXCEPT ![A] = RAdd(@, RMul(Rat(1, n[A]), R))]

\* mutant of estimate: the step size 1/(N[A] + 1), the step counted twice
estimate_double_count(q, n, A, R) ==
    [q EXCEPT ![A] = RAdd(@, RMul(Rat(1, n[A] + 1), RSub(R, @)))]

\* mutant of estimate: Q += (1/N[A]) * (R - Q), every estimate moved
estimate_broadcast(q, n, A, R) ==
    [a \in DOMAIN q |-> RAdd(q[a], RMul(Rat(1, n[A]), RSub(R, q[a])))]

\* Q[A] += (1/N[A]) * (R - Q[A]), with n the counts already incremented
estimate(q, n, A, R) ==
    [q EXCEPT ![A] = RAdd(@, RMul(Rat(1, n[A]), RSub(R, @)))]

\* mutant of score: the textbook's c = 2 written into the bound, the argument
\* c not used
score_fixed_c(q, n, i, cc) ==
    [a \in DOMAIN q |->
        RAdd(q[a], RMul(FromInt(2), sqrt(RDiv(log(i), FromInt(n[a])))))]

\* mutant of score: the bound not scaled by c
score_unscaled(q, n, i, cc) ==
    [a \in DOMAIN q |-> RAdd(q[a], sqrt(RDiv(log(i), FromInt(n[a]))))]

\* Q + c * np.sqrt( np.log(t) / N )
score(q, n, i, cc) ==
    [a \in DOMAIN q |->
        RAdd(q[a], RMul(cc, sqrt(RDiv(log(i), FromInt(n[a])))))]

\* mutant of observe: hist_A.insert(0, A); hist_R.insert(0, R)
observe_prepend(A, R) ==
    /\ calls' = Append(calls, <<A, R>>)
    /\ N' = count(N, A)
    /\ Q' = estimate(Q, N', A, R)
    /\ hist_A' = <<A>> \o hist_A
    /\ hist_R' = <<R>> \o hist_R
    /\ t' = t + 1

\* R = env.step(A); N[A] += 1; Q[A] += ...; hist_A.append(A); hist_R.append(R)
observe(A, R) ==
    /\ calls' = Append(calls, <<A, R>>)
    /\ N' = count(N, A)
    /\ Q' = estimate(Q, N', A, R)
    /\ hist_A' = Append(hist_A, A)
    /\ hist_R' = Append(hist_R, R)
    /\ t' = t + 1

BanditFrame == UNCHANGED <<sel, env, k, means, nb, c, eps, alpha, baseline, H, R_, N_, arr, ret>>

\* mutant of ucb_warmup: the actions taken in reverse, range(env.size - 1, -1, -1)
ucb_warmup_reversed ==
    /\ sel = "ucb_bandit" /\ pc = "warmup"
    /\ \E R \in env_step(k - 1 - t) : observe(k - 1 - t, R)
    /\ pc' = ucb_pc(t')
    /\ BanditFrame

\* mutant of ucb_warmup: no forced order, the greedy choice argmax_rand(Q)
ucb_warmup_greedy ==
    /\ sel = "ucb_bandit" /\ pc = "warmup"
    /\ \E A \in argmax_rand(Q) : \E R \in env_step(A) : observe(A, R)
    /\ pc' = ucb_pc(t')
    /\ BanditFrame

\* mutant of ucb_warmup: the actions numbered from one, range(1, env.size + 1)
ucb_warmup_one_based ==
    /\ sel = "ucb_bandit" /\ pc = "warmup"
    /\ \E R \in env_step(t + 1) : observe(t + 1, R)
    /\ pc' = ucb_pc(t')
    /\ BanditFrame

\* one iteration of "for A in range(env.size)"
ucb_warmup ==
    /\ sel = "ucb_bandit" /\ pc = "warmup"
    /\ \E R \in env_step(t) : observe(t, R)
    /\ pc' = ucb_pc(t')
    /\ BanditFrame

\* mutant of ucb_bound: the logarithm of a counter that starts at 1 in the
\* second loop, np.log(t - env.size + 1)
ucb_bound_relative ==
    /\ sel = "ucb_bandit" /\ pc = "bound"
    /\ \E A \in argmax_rand(score(Q, N, t - k + 1, c)) :
         \E R \in env_step(A) : observe(A, R)
    /\ pc' = ucb_pc(t')
    /\ BanditFrame

\* one iteration of "for t in range(env.size, nb)"
ucb_bound ==
    /\ sel = "ucb_bandit" /\ pc = "bound"
    /\ \E A \in argmax_rand(score(Q, N, t, c)) : \E R \in env_step(A) : observe(A, R)
    /\ pc' = ucb_pc(t')
    /\ BanditFrame

\* one iteration of simple_bandit's loop
simple_step ==
    /\ sel = "simple_bandit" /\ pc = "loop"
    /\ \E u \in RandValues :
         \E A \in (IF RLt(eps, u) THEN argmax_rand(Q) ELSE Actions) :
           \E R \in env_step(A) : observe(A, R)
    /\ pc' = loop_pc(t')
    /\ BanditFrame

\* mutant of preference: H_new[A] += alpha*(R-R_)*(1-pi[A]), which adds to the
\* entry the first line has already changed
preference_sequential(h, pi, A, R, b, a) ==
    LET H_new == [i \in DOMAIN h |-> RSub(h[i], RMul(RMul(a, RSub(R, b)), pi[i]))]
    IN  [H_new EXCEPT ![A] =
            RAdd(@, RMul(RMul(a, RSub(R, b)), RSub(One, pi[A])))]

\* mutant of preference: only the preference of the chosen action is moved
preference_chosen_only(h, pi, A, R, b, a) ==
    [h EXCEPT ![A] = RAdd(@, RMul(RMul(a, RSub(R, b)), RSub(One, pi[A])))]

\* H_new = H - alpha*(R-R_)*pi; H_new[A] = H[A] + alpha*(R-R_)*(1-pi[A])
preference(h, pi, A, R, b, a) ==
    LET H_new == [i \in DOMAIN h |-> RSub(h[i], RMul(RMul(a, RSub(R, b)), pi[i]))]
    IN  [H_new EXCEPT ![A] =
            RAdd(h[A], RMul(RMul(a, RSub(R, b)), RSub(One, pi[A])))]

\* mutant of baseline_count: N_ += 1 outside the "if baseline"
baseline_count_always(n, on) == n + 1
\* if baseline: N_ += 1; R_ += 1/N_ * (R-R_)
baseline_count(n, on) == IF on THEN n + 1 ELSE n
\* mutant of baseline_mean: a constant step size 1/2 (recency-weighted average)
baseline_mean_recency(r, n, R, on) ==
    IF on THEN RAdd(r, RMul(Rat(1, 2), RSub(R, r))) ELSE r
baseline_mean(r, n, R, on) ==
    IF on THEN RAdd(r, RMul(Rat(1, n), RSub(R, r))) ELSE r

\* mutant of gradient_step: the "if baseline" block moved above the update of
\* the preferences, which then reads the mean that holds the step's reward
gradient_step_baseline_first ==
    /\ sel = "gradient_bandit" /\ pc = "loop"
    /\ LET pi == softmax(H)
       IN  \E A \in choice(k, pi) : \E R \in env_step(A) :
             /\ calls' = Append(calls, <<A, R>>)
             /\ N_' = baseline_count(N_, baseline)
             /\ R_' = baseline_mean(R_, N_', R, baseline)
             /\ H' = preference(H, pi, A, R, R_', alpha)
             /\ hist_A' = Append(hist_A, A)
             /\ hist_R' = Append(hist_R, R)
    /\ t' = t + 1
    /\ pc' = loop_pc(t')
    /\ UNCHANGED <<sel, env, k, means, nb, c, eps, alpha, baseline, Q, N, arr, ret>>

\* one iteration of gradient_bandit's loop
gradient_step ==
    /\ sel = "gradient_bandit" /\ pc = "loop"
    /\ LET pi == softmax(H)
       IN  \E A \in choice(k, pi) : \E R \in env_step(A) :
             /\ calls' = Append(calls, <<A, R>>)
             /\ H' = preference(H, pi, A, R, R_, alpha)
             /\ N_' = baseline_count(N_, baseline)
             /\ R_' = baseline_mean(R_, N_', R, baseline)
             /\ hist_A' = Append(hist_A, A)
             /\ hist_R' = Append(hist_R, R)
    /\ t' = t + 1
    /\ pc' = loop_pc(t')
    /\ UNCHANGED <<sel, env, k, means, nb, c, eps, alpha, baseline, Q, N, arr, ret>>

\* mutant of experiment_next: Q, N and the histories kept from the run before
\* (as if they were globals of the notebook)
experiment_next_shared ==
    /\ sel = "simple_bandit" /\ pc = "done"
    /\ sel' = "ucb_bandit" /\ c' \in CValues /\ eps' = Zero
    /\ t' = 0 /\ calls' = <<>>
    /\ pc' = ucb_pc(0)
    /\ UNCHANGED <<env, k, means, nb, alpha, baseline, Q, N, hist_A, hist_R,
                   H, R_, N_, arr, ret>>

\* the experiment loop: simple_bandit(env, nb, eps) has returned, and
\* ucb_bandit(env, nb, c) is called on the same env and runs up to its
\* first loop
experiment_next ==
    /\ sel = "simple_bandit" /\ pc = "done"
    /\ sel' = "ucb_bandit" /\ c' \in CValues /\ eps' = Zero
    /\ Q' = zeros(k) /\ N' = [a \in Actions |-> 0]
    /\ hist_A' = <<>> /\ hist_R' = <<>>
    /\ t' = 0 /\ calls' = <<>>
    /\ pc' = ucb_pc(0)
    /\ UNCHANGED <<env, k, means, nb, alpha, baseline, H, R_, N_, arr, ret>>

HelperFrame ==
    UNCHANGED <<sel, env, k, means, nb, c, eps, alpha, baseline, Q, N, H, R_, N_,
                hist_A, hist_R, t, calls, arr>>

\* argmax_rand(arr) returns
call_argmax_rand ==
    /\ sel = "argmax_rand" /\ pc = "call"
    /\ \E i \in argmax_rand(arr) : ret' = <<i>>
    /\ pc' = "done"
    /\ HelperFrame

\* softmax(arr) returns
call_softmax ==
    /\ sel = "softmax" /\ pc = "call"
    /\ ret' = <<softmax(arr)>>
    /\ pc' = "done"
    /\ HelperFrame

Next ==
    \/ ucb_warmup
    \/ ucb_bound
    \/ simple_step
    \/ gradient_step
    \/ experiment_next
    \/ call_argmax_rand
    \/ call_softmax

Spec == Init /\ [][Next]_vars

(***************************************************************************)
(* What the environment saw, for the properties below.                     *)
(***************************************************************************)
\* the steps (1-based positions of calls) in which env.step was given action a
StepsOf(a) == {i \in 1 .. Len(calls) : calls[i][1] = a}
\* the sum of the rewards env.step has returned for action a
RewardSumOf(a) == RSum([i \in StepsOf(a) |-> calls[i][2]], StepsOf(a))
\* the sum of all rewards env.step has returned
RewardSum == RSum([i \in 1 .. Len(calls) |-> calls[i][2]], 1 .. Len(calls))
\* the sum of the integers f[i] over the finite set S of arguments
RECURSIVE ISum(_, _)
ISum(f, S) ==
    IF S = {} THEN 0
    ELSE LET i == CHOOSE j \in S : TRUE
         IN  f[i] + ISum(f, S \ {i})
\* the last element of a non-empty sequence
Last(s) == s[Len(s)]
ValueBandit == sel \in {"ucb_bandit", "simple_bandit"}
Selector == sel \in {"ucb_bandit", "simple_bandit", "gradient_bandit"}

(***************************************************************************)
(* Properties.                                                             *)
(***************************************************************************)

\* C1: in every state of ucb_bandit and of simple_bandit, for every action a
\* chosen at least once Q[a] * N[a] is the sum of the rewards env.step has
\* returned for a (Q[a] is their arithmetic mean), and Q[a] = 0 while N[a] = 0.
C1_IncrementalMean ==
    ValueBandit =>
        \A a \in Actions :
            IF N[a] = 0 THEN Q[a] = Zero
            ELSE RMul(Q[a], FromInt(N[a])) = RewardSumOf(a)

\* a ucb_bandit run in which some action was rewarded three times or more
\* and its mean is not an integer
C1_Witness ==
    /\ sel = "ucb_bandit"
    /\ \E a \in Actions : N[a] >= 3 /\ Q[a][2] = 3

\* C2: every bound-phase step of ucb_bandit (step index t = number of steps
\* completed, k <= t < nb) chooses an action A whose score
\* Q[A] + c * sqrt(ln(t) / N[A]), computed from Q and N as they are before the
\* step's update, is at least the score of every action.
C2_UcbSelectionRule ==
    [][(sel = "ucb_bandit" /\ Len(hist_A) >= k /\ Len(hist_A') = Len(hist_A) + 1)
        => LET s == score(Q, N, Len(hist_A), c)
           IN  \A a \in Actions : RLe(s[a], s[Last(hist_A')])]_vars

\* a finished ucb_bandit run with c > 0 whose bound phase chose two different
\* actions
C2_Witness ==
    /\ sel = "ucb_bandit" /\ pc = "done" /\ c # Zero
    /\ \E i, j \in k + 1 .. Len(hist_A) : hist_A[i] # hist_A[j]

\* C3: the first k steps of ucb_bandit choose the actions 0, 1, ..., k-1 in
\* this order, whatever c, the rewards and the random draws are: the i-th
\* history entry (counted from 0) is i for i < k, and the run does not leave
\* the warm-up before k steps are done.
C3_WarmupOrder ==
    sel = "ucb_bandit" =>
        /\ \A i \in 1 .. Len(hist_A) : i <= k => hist_A[i] = i - 1
        /\ Len(hist_A) < k => pc = "warmup"

\* a ucb_bandit run on two or more actions, past its warm-up, with c > 0 and
\* two different warm-up rewards
C3_Witness ==
    /\ sel = "ucb_bandit" /\ k >= 2 /\ c # Zero /\ Len(hist_A) > k
    /\ hist_R[1] # hist_R[2]

\* C4: in the state of ucb_bandit after exactly k steps, N[a] = 1 for every
\* action a and Q[a] is the one reward env.step returned for a.
C4_WarmupComplete ==
    (sel = "ucb_bandit" /\ Len(calls) = k) =>
        \A a \in Actions :
            /\ N[a] = 1
            /\ \E i \in 1 .. k : StepsOf(a) = {i} /\ Q[a] = calls[i][2]

\* ucb_bandit after exactly k >= 2 steps with two different rewards
C4_Witness ==
    /\ sel = "ucb_bandit" /\ k >= 2 /\ Len(calls) = k
    /\ Q[0] # Q[1]

\* C5: after t completed steps of ucb_bandit or simple_bandit the counts N
\* sum to t; each step added one to the count of the action it chose and
\* to no other, so N[a] is the number of steps that chose a.
C5_CountConservation ==
    ValueBandit =>
        /\ ISum(N, Actions) = Len(calls)
        /\ t = Len(calls)
        /\ \A a \in Actions : N[a] = Cardinality(StepsOf(a))

\* a simple_bandit run of three steps that chose two different actions
C5_Witness ==
    /\ sel = "simple_bandit" /\ Len(calls) = 3
    /\ \E a, b \in Actions : a # b /\ N[a] = 2 /\ N[b] = 1

\* C6: after t completed steps of ucb_bandit, simple_bandit or
\* gradient_bandit both histories have length t, and the histories a run
\* returns have length nb (for ucb_bandit when nb > k).
C6_HistoryLengths ==
    Selector =>
        /\ Len(hist_A) = Len(calls)
        /\ Len(hist_R) = Len(calls)
        /\ t = Len(calls)
        /\ (pc = "done" /\ (sel = "ucb_bandit" => nb > k)) =>
              (Len(hist_A) = nb /\ Len(hist_R) = nb)

\* a gradient_bandit run that has returned after two steps
C6_Witness ==
    /\ sel = "gradient_bandit" /\ pc = "done" /\ nb = 2 /\ Len(hist_A) = 2

\* C7: argmax_rand on a non-empty array returns an index holding the maximum
\* value, never one holding a smaller value, and every index holding the
\* maximum is a result it can return.
C7_ArgmaxRand ==
    sel = "argmax_rand" =>
        /\ pc = "done" => \A j \in DOMAIN arr : RLe(arr[j], arr[ret[1]])
        /\ pc = "call" =>
              \A i \in DOMAIN arr :
                  (\A j \in DOMAIN arr : RLe(arr[j], arr[i]))
                      => ENABLED (call_argmax_rand /\ ret' = <<i>>)

\* argmax_rand([5, 5, 5, 1]) has returned 2
C7_Witness ==
    /\ sel = "argmax_rand" /\ pc = "done"
    /\ arr = [i \in 0 .. 3 |-> IF i < 3 THEN FromInt(5) ELSE FromInt(1)]
    /\ ret = <<2>>

\* C8: every step of gradient_bandit, with pi the softmax of the preferences H
\* held before the step, A the action chosen, R its reward and b the baseline
\* (R_ before the step when the baseline is enabled, else 0), leaves
\* H'[A] = H[A] + alpha*(R-b)*(1-pi[A]) and H'[a] = H[a] - alpha*(R-b)*pi[a]
\* for every a # A: every entry comes from the H and pi before the step.
C8_SimultaneousUpdate ==
    [][(sel = "gradient_bandit" /\ Len(hist_A') = Len(hist_A) + 1)
        => LET pi == softmax(H)
               A == Last(hist_A')
               R == Last(hist_R')
               b == IF baseline THEN R_ ELSE Zero
               g == RMul(alpha, RSub(R, b))
           IN  \A a \in Actions :
                   H'[a] = IF a = A THEN RAdd(H[a], RMul(g, RSub(One, pi[a])))
                           ELSE RSub(H[a], RMul(g, pi[a]))]_vars

\* a gradient_bandit run with the baseline whose second step started from
\* unequal preferences and saw a reward other than the baseline
C8_Witness ==
    /\ sel = "gradient_bandit" /\ baseline /\ Len(hist_A) = 2 /\ k >= 2
    /\ hist_R[1] # Zero /\ hist_R[2] # hist_R[1]
    /\ H[0] # H[1]

\* within 1e-9
Tolerance == Rat(1, 1000000000)
\* p is a probability distribution: no NaN or infinite entry, every entry in
\* [0, 1], the entries summing to 1 within the tolerance
IsDistribution(p) ==
    /\ \A i \in DOMAIN p : IsFinite(p[i]) /\ RLe(Zero, p[i]) /\ RLe(p[i], One)
    /\ LET d == RSub(RSum(p, DOMAIN p), One)
       IN  RLe(d, Tolerance) /\ RLe(RNeg(d), Tolerance)

\* C9: softmax of a finite preference vector, entries of large magnitude
\* included, is a probability distribution (no NaN or infinite entry, every
\* entry in [0, 1], sum 1 within 1e-9), and so is the policy of every step of
\* gradient_bandit (the softmax of the H a step starts from).
C9_SoftmaxValid ==
    /\ (sel = "softmax" /\ pc = "done") => IsDistribution(ret[1])
    /\ (sel = "gradient_bandit" /\ pc = "loop") => IsDistribution(softmax(H))

\* softmax([1000, 0, -1000]) has returned [1, 0, 0]
C9_Witness ==
    /\ sel = "softmax" /\ pc = "done"
    /\ arr = [i \in 0 .. 2 |-> FromInt(1000 - 1000 * i)]
    /\ ret = <<[i \in 0 .. 2 |-> IF i = 0 THEN One ELSE Zero]>>

\* C10: in gradient_bandit with the baseline enabled, after t completed steps
\* the observation count N_ is t and the baseline R_ is the arithmetic mean
\* of the t rewards observed (0 when t = 0).
C10_RunningBaseline ==
    (sel = "gradient_bandit" /\ baseline) =>
        /\ N_ = Len(calls)
        /\ IF Len(calls) = 0 THEN R_ = Zero
           ELSE RMul(R_, FromInt(Len(calls))) = RewardSum

\* a gradient_bandit run with the baseline, two steps, two different rewards
\* and a mean that is not an integer
C10_Witness ==
    /\ sel = "gradient_bandit" /\ baseline /\ Len(calls) = 2
    /\ hist_R[1] # hist_R[2] /\ R_[2] = 2

\* C11: in gradient_bandit with baseline=False the baseline R_ and its
\* observation count N_ are 0 in every state of the run, and every step, with
\* pi the softmax of the preferences H before it, A its action and R its
\* reward, leaves H'[A] = H[A] + alpha*R*(1-pi[A]) and
\* H'[a] = H[a] - alpha*R*pi[a] for every a # A.
C11_BaselineDisabled ==
    /\ []((sel = "gradient_bandit" /\ ~baseline) => (R_ = Zero /\ N_ = 0))
    /\ [][(sel = "gradient_bandit" /\ ~baseline
            /\ Len(hist_A') = Len(hist_A) + 1)
          => LET pi == softmax(H)
                 A == Last(hist_A')
                 g == RMul(alpha, Last(hist_R'))
             IN  \A a \in Actions :
                     H'[a] = IF a = A
                             THEN RAdd(H[a], RMul(g, RSub(One, pi[a])))
                             ELSE RSub(H[a], RMul(g, pi[a]))]_vars

\* a gradient_bandit run without the baseline that has taken two steps, both
\* with a reward other than 0, and has moved the preferences
C11_Witness ==
    /\ sel = "gradient_bandit" /\ ~baseline /\ Len(calls) = 2 /\ k >= 2
    /\ hist_R[1] # Zero /\ hist_R[2] # Zero
    /\ H[0] # H[1]

\* C12: ucb_bandit called with nb < k signals a configuration error instead
\* of returning a result, and before any step: it never calls env.step and
\* never reaches its return statement.
C12_UcbRejectsShortBudget ==
    (sel = "ucb_bandit" /\ nb < k) => (Len(calls) = 0 /\ pc # "done")

\* C13: a selector called with nb <= 0 or with an environment of size k <= 0
\* signals a configuration error before any step: it never calls env.step
\* and never reaches its return statement.
C13_RejectsNonPositive ==
    (Selector /\ (nb <= 0 \/ k <= 0)) => (Len(calls) = 0 /\ pc # "done")

\* C14: every action ucb_bandit, simple_bandit and gradient_bandit have passed
\* to env.step is an integer in [0, k), k = env.size.
C14_ActionsInRange ==
    Selector => \A i \in 1 .. Len(calls) : calls[i][1] \in 0 .. k - 1

\* a run of a selector on two actions or more in which env.step was given
\* the first action and the last action
C14_Witness ==
    /\ Selector /\ k >= 2 /\ Len(calls) >= 2
    /\ \E i \in 1 .. Len(calls) : calls[i][1] = k - 1
    /\ \E i \in 1 .. Len(calls) : calls[i][1] = 0

\* C15: whenever ucb_bandit is about to evaluate the bound formula (its next
\* step is a step t >= k of the second loop), N[a] >= 1 for every action a.
C15_BoundDefined ==
    (sel = "ucb_bandit" /\ pc = "bound") => \A a \in Actions : N[a] >= 1

\* ucb_bandit about to evaluate the bound a second time, one action counted
\* once and another twice
C15_Witness ==
    /\ sel = "ucb_bandit" /\ pc = "bound" /\ t = k + 1
    /\ \E a, b \in Actions : N[a] = 1 /\ N[b] = 2

\* the actions whose estimate is maximal among all actions
Greedy == {a \in Actions : \A b \in Actions : RLe(Q[b], Q[a])}

\* C16: in ucb_bandit with c = 0, at every step t >= k the array handed to
\* argmax_rand has its maximum at exactly the actions whose estimate Q[a] is
\* maximal among all actions (argmax_rand picks among those, ties included),
\* and the action the step chooses is one of them.
C16_ZeroCIsGreedy ==
    /\ []((sel = "ucb_bandit" /\ pc = "bound" /\ c = Zero)
            => argmax_rand(score(Q, N, t, c)) = Greedy)
    /\ [][(sel = "ucb_bandit" /\ pc = "bound" /\ c = Zero)
            => Last(hist_A') \in Greedy]_vars

\* ucb_bandit with c = 0 about to take a step t >= k, the action of the
\* single maximal estimate counted three times and the other once, so that
\* the bound with c > 0 would put the other action first
C16_Witness ==
    /\ sel = "ucb_bandit" /\ env = "BanditEnv" /\ c = Zero /\ k = 2
    /\ pc = "bound" /\ t = 4
    /\ N[0] = 3 /\ N[1] = 1
    /\ Q[0] = One /\ Q[1] = One

\* ucb_bandit on the deterministic environment (k = 2, step(0) = 1.0,
\* step(1) = 0.0)
StubRun == sel = "ucb_bandit" /\ env = "stub"
\* the estimates [1.0, 0.0]
StubQ == [a \in 0 .. 1 |-> IF a = 0 THEN One ELSE Zero]

\* C17: on the deterministic environment ucb_bandit has Q = [1.0, 0.0] and
\* N = [1, 1] when the warm-up is over (t = 2), and Q = [1.0, 0.0] in every
\* later state up to the end of the run, for c = 0 and for c = 2 and whatever
\* the later selections.
C17_StubEstimates ==
    StubRun =>
        /\ t = 2 => (Q = StubQ /\ N = [a \in 0 .. 1 |-> 1])
        /\ t >= 2 => Q = StubQ

\* a run on the deterministic environment with c = 2 that has gone back to
\* action 1 after the warm-up and to action 0 several times
C17_Witness ==
    /\ StubRun /\ c = FromInt(2) /\ t >= 6
    /\ N[1] >= 2 /\ N[0] >= 4
    /\ Q = StubQ

\* the steps of the second loop (1-based positions in hist_A) that chose a
BoundSteps(a) == {i \in k + 1 .. Len(hist_A) : hist_A[i] = a}
\* p and q are consecutive members of the set S of integers
Consecutive(S, p, q) ==
    p \in S /\ q \in S /\ p < q /\ \A r \in S : ~(p < r /\ r < q)

\* C18: on the deterministic environment with c = 2.0, the run with nb = 10
\* ends with action 0 chosen in more than half of the steps t = 2..9 and
\* action 1 chosen in at least one of them; and in every run, of any two
\* successive gaps between consecutive selections of action 1 the later is
\* not the shorter.
C18_StubSelections ==
    (StubRun /\ c = FromInt(2)) =>
        /\ (nb = 10 /\ pc = "done") =>
              /\ Cardinality(BoundSteps(0)) > Cardinality(BoundSteps(1))
              /\ BoundSteps(1) # {}
        /\ \A p, q, r \in StepsOf(1) :
              (Consecutive(StepsOf(1), p, q) /\ Consecutive(StepsOf(1), q, r))
                  => r - q >= q - p

\* the run with c = 2.0 and nb = 10 on the deterministic environment has
\* ended, action 1 chosen in the warm-up and once more, at t = 5
C18_Witness ==
    /\ StubRun /\ c = FromInt(2) /\ nb = 10 /\ pc = "done"
    /\ hist_A = <<0, 1, 0, 0, 0, 1, 0, 0, 0, 0>>

\* C19: a run of ucb_bandit, simple_bandit or gradient_bandit, for every
\* k >= 1 and every nb, has made at most nb calls to env.step and has recorded
\* at most nb entries in each history.
C19_BoundedByBudget ==
    (Selector /\ k >= 1) =>
        /\ Len(calls) <= nb
        /\ Len(hist_A) <= nb
        /\ Len(hist_R) <= nb

\* a step of a run: one more history entry, the same function running
RunStep == sel' = sel /\ Len(hist_A') = Len(hist_A) + 1

\* C21: every step of ucb_bandit and simple_bandit, A the action it chooses,
\* leaves N'[A] = N[A] + 1, and N'[a] = N[a] and Q'[a] = Q[a] for every
\* a # A; no step of a run makes any N[a] smaller.
C21_StepFrame ==
    [][(ValueBandit /\ sel' = sel)
        => /\ \A a \in Actions : N'[a] >= N[a]
           /\ RunStep =>
                LET A == Last(hist_A')
                IN  /\ N'[A] = N[A] + 1
                    /\ \A a \in Actions \ {A} :
                          N'[a] = N[a] /\ Q'[a] = Q[a]]_vars

\* a simple_bandit run on two actions or more that has chosen the same
\* action twice and moved its estimate, another action never chosen
C21_Witness ==
    /\ sel = "simple_bandit" /\ k >= 2
    /\ \E a, b \in Actions : N[a] = 2 /\ Q[a] # Zero /\ N[b] = 0

\* C22: whenever ucb_bandit is about to evaluate the bound, the t it puts in
\* ln(t) is the number n of the history entry the selection produces (n
\* counted from 1, the warm-up's entries included).
C22_LogOfEntryNumber ==
    (sel = "ucb_bandit" /\ pc = "bound") => t = Len(hist_A) + 1

\* C24: whenever ucb_bandit is about to evaluate the bound, its t is the
\* number of steps taken so far, the warm-up's included: t = sum(N), t >= k,
\* t >= 1, t <= nb - 1 (so the first evaluation has t = k); the step chooses
\* a maximum of Q + c*sqrt(ln(sum(N))/N) and leaves t' = t + 1.
C24_AbsoluteStepIndex ==
    /\ []((sel = "ucb_bandit" /\ pc = "bound")
            => /\ t = ISum(N, Actions)
               /\ t = Len(hist_A)
               /\ t >= k /\ t >= 1 /\ t <= nb - 1)
    /\ [][(sel = "ucb_bandit" /\ pc = "bound")
            => /\ t' = t + 1
               /\ Last(hist_A') \in
                     argmax_rand(score(Q, N, ISum(N, Actions), c))]_vars

\* a ucb_bandit run on two actions with c = 2 has evaluated the bound at
\* t = 3 with unequal counts and estimates half a reward apart
C24_Witness ==
    /\ sel = "ucb_bandit" /\ env = "BanditEnv" /\ k = 2 /\ c = FromInt(2)
    /\ Len(hist_A) >= 4
    /\ hist_A[3] = 0 /\ hist_R[1] = One /\ hist_R[2] = Zero /\ hist_R[3] = Zero

\* the mean of the rewards env.step has returned so far, 0 if there is none
RewardMean ==
    IF Len(calls) = 0 THEN Zero ELSE RDiv(RewardSum, FromInt(Len(calls)))

\* C25: every step of gradient_bandit with the baseline enabled updates the
\* preferences with b the mean of the rewards of the earlier steps (0 in the
\* first step), not counting the step's own reward R:
\* H'[A] = H[A] + alpha*(R-b)*(1-pi[A]), H'[a] = H[a] - alpha*(R-b)*pi[a].
C25_BaselineReadFirst ==
    [][(sel = "gradient_bandit" /\ baseline /\ RunStep)
        => LET pi == softmax(H)
               A == Last(hist_A')
               g == RMul(alpha, RSub(Last(hist_R'), RewardMean))
           IN  \A a \in Actions :
                   H'[a] = IF a = A THEN RAdd(H[a], RMul(g, RSub(One, pi[a])))
                           ELSE RSub(H[a], RMul(g, pi[a]))]_vars

\* a gradient_bandit run with the baseline: the first reward was not 0 and
\* the second differs from it, so either step's reward differs from the
\* mean it was compared with
C25_Witness ==
    /\ sel = "gradient_bandit" /\ baseline /\ Len(calls) = 2 /\ k >= 2
    /\ hist_R[1] = One /\ hist_R[2] = FromInt(-1)

Fresh ==
    /\ hist_A = <<>> /\ hist_R = <<>> /\ calls = <<>>
    /\ ValueBandit => (Q = zeros(k) /\ N = [a \in Actions |-> 0])
    /\ sel = "gradient_bandit" => (H = zeros(k) /\ R_ = Zero /\ N_ = 0)

C28_PreferenceSum ==
    sel = "gradient_bandit" => RSum(H, DOMAIN H) = Zero

\* a gradient_bandit run of two steps that has moved the preferences
C28_Witness ==
    /\ sel = "gradient_bandit" /\ Len(calls) = 2 /\ k >= 2
    /\ H[0] # Zero /\ H[1] # Zero /\ hist_R[2] # Zero

\* C29: in every selector the histories have one entry per env.step call,
\* entry i holding the action and the reward of the i-th call, and every
\* step of a run leaves the entries already there as they are, adding at
\* most one at the end.
C29_ParallelHistories ==
    /\ [](Selector =>
            /\ Len(hist_A) = Len(calls) /\ Len(hist_R) = Len(calls)
            /\ \A i \in 1 .. Len(calls) :
                  calls[i] = <<hist_A[i], hist_R[i]>>)
    /\ [][(Selector /\ sel' = sel)
            => /\ Len(hist_A') <= Len(hist_A) + 1
               /\ SubSeq(hist_A', 1, Len(hist_A)) = hist_A
               /\ SubSeq(hist_R', 1, Len(hist_R)) = hist_R]_vars

\* a run of three steps, two actions and two rewards in its histories
C29_Witness ==
    /\ Selector /\ Len(hist_A) = 3
    /\ hist_A[1] # hist_A[3] /\ hist_R[1] # hist_R[2]

\* C30: ucb_bandit called with nb = k never reaches the second loop (the
\* bound is not evaluated, argmax_rand not called) and returns with every
\* action chosen once, in order, histories of length nb, and Q[a] the reward
\* of action a.
C30_WarmupOnly ==
    (sel = "ucb_bandit" /\ nb = k) =>
        /\ pc # "bound"
        /\ pc = "done" =>
              /\ hist_A = [i \in 1 .. k |-> i - 1]
              /\ Len(hist_R) = nb
              /\ \A a \in Actions : N[a] = 1 /\ Q[a] = hist_R[a + 1]

\* ucb_bandit with nb = k = 2 has returned, the two rewards different
C30_Witness ==
    /\ sel = "ucb_bandit" /\ nb = k /\ k = 2 /\ pc = "done"
    /\ hist_R[1] # hist_R[2] /\ hist_R[2] # Zero

=============================================================================
